---- MODULE Spec2Model ----
(***************************************************************************)
(* Model of src/main.py: the session handshake run by main() (connect,     *)
(* login, channel.close) and the envelope decode loop of                   *)
(* load_and_process_game_log.                                              *)
(*                                                                         *)
(* Spec        main(): credential check, connect(), login(), close.        *)
(* DecodeSpec  load_and_process_game_log(): fetch, unwrap, decode loop.    *)
(***************************************************************************)
EXTENDS Integers, Sequences, FiniteSets, TLC

VARIABLES
    \* ---- main() / connect() / login() ----
    pc,                \* position of main(): start, connect, login, oauth2, pay, fetch, close, done (idle: not running)
    username,          \* os.getenv("USERNAME", ...)
    password,          \* os.getenv("PASSWORD", ...)
    channel,           \* MSRPCChannel: none, created, open, closed
    endpoint,          \* the server chosen by random.choice
    version_to_force,  \* version with every ".w" removed
    clock,             \* the timestamp uuid.uuid1() last used
    token,             \* login()'s local variable token
    calls,             \* requests issued on the lobby, in order, with the channel's state
    resps,             \* what each call came back with: a response or a raised error
    hs,                \* handshake state reached
    loginResult,       \* none, true, false, raised
    exc,               \* the exception that left login(), or "none"
    mainResult,        \* running, returned, raised
    \* ---- load_and_process_game_log() ----
    dpc,               \* fetch, loop, returned, raised (idle: not running)
    blob,              \* what fetch_game_record holds for the uuid
    records,           \* game_details.records
    i,                 \* loop variable
    is_show_new_round_record,
    is_show_discard_tile,
    is_show_deal_tile,
    visits,            \* calls of print_data_as_json: child index and type
    processed,         \* child indices whose loop body ran to its end
    derr,              \* the exception that left the function: <<>> or <<[kind, index, name]>>
    prev,              \* how the earlier calls on the same uuid ended: dpc, visits, derr
    \* ---- load_game_logs() ----
    lpc,               \* call, returned, raised (idle: not running)
    record_list,       \* res.record_list the server answers with
    listCalls,         \* requests issued by load_game_logs, each with how it came back
    listed             \* the list load_game_logs returns

hvars == <<pc, username, password, channel, endpoint, version_to_force, clock,
           token, calls, resps, hs, loginResult, exc, mainResult>>
dvars == <<dpc, blob, records, i, is_show_new_round_record, is_show_discard_tile,
           is_show_deal_tile, visits, processed, derr, prev>>
lvars == <<lpc, record_list, listCalls, listed>>
vars == <<hvars, dvars, lvars>>

(***************************************************************************)
(* Input domains.                                                          *)
(***************************************************************************)
Usernames == {"", "default_username"}
Passwords == {"", "default_password"}
\* version.json's "version", as the pieces str.replace works on
Versions == {<<"0.11.1", ".w">>, <<"0.11.2">>, <<"0.11", ".w", ".3", ".w">>}
Servers == {"s1", "s2"}
\* access tokens the server may answer with, besides the empty one
Tokens == {"t1", "t2"}
\* failures the RPC channel may raise
Errors == {"ChannelClosed", "ServerError"}

(***************************************************************************)
(* Pure helpers.                                                           *)
(***************************************************************************)
\* version.replace(".w", "")
RemoveW(version) == SelectSeq(version, LAMBDA piece : piece # ".w")

\* hmac.new(b"lailai", password.encode(), hashlib.sha256).hexdigest()
Hmac(secret) == <<"hmac-sha256", "lailai", secret>>

\* f"web-{version_to_force}"
ClientVersionString(v) == <<"web-">> \o v

\* str(uuid.uuid1()): the timestamp is forced past the last one used
Uuid1(last) == last + 1

ReqLogin(u, p, key, v) ==
    [method |-> "login", account |-> u, password |-> Hmac(p), is_browser |-> TRUE,
     random_key |-> key, gen_access_token |-> TRUE,
     client_version_string |-> ClientVersionString(v), currency_platforms |-> <<2>>]

\* mutant: phase 2 asks for a new token, as phase 1 does
ReqOauth2Login_GenToken(t, key, v) ==
    [method |-> "oauth2_login", type |-> 7, access_token |-> t, reconnect |-> FALSE,
     is_browser |-> TRUE, random_key |-> key,
     client_version_string |-> ClientVersionString(v), gen_access_token |-> TRUE,
     currency_platforms |-> <<2>>]

ReqOauth2Login(t, key, v) ==
    [method |-> "oauth2_login", type |-> 7, access_token |-> t, reconnect |-> FALSE,
     is_browser |-> TRUE, random_key |-> key,
     client_version_string |-> ClientVersionString(v), gen_access_token |-> FALSE,
     currency_platforms |-> <<2>>]

ReqCommon(m) == [method |-> m]

\* what an awaited lobby call can come back with
Raised == {[ok |-> FALSE, error |-> e] : e \in Errors}
ResLogin == {[ok |-> TRUE, access_token |-> t] : t \in Tokens \cup {""}} \cup Raised
ResCommon == {[ok |-> TRUE]} \cup Raised

\* the request goes out on the channel and its outcome is recorded
Issue(req, res) ==
    /\ calls' = Append(calls, [req |-> req, chan |-> channel])
    /\ resps' = Append(resps, res)

\* an exception leaves login() and then main(): line 39 is not reached
Propagate(res) ==
    /\ loginResult' = "raised"
    /\ exc' = res.error
    /\ mainResult' = "raised"
    /\ pc' = "done"

(***************************************************************************)
(* main()                                                                  *)
(***************************************************************************)
\* mutant: only the username is checked
MainStart_UsernameOnly ==
    /\ pc = "start"
    /\ IF username = ""
       THEN pc' = "done" /\ mainResult' = "returned"
       ELSE pc' = "connect" /\ UNCHANGED mainResult
    /\ UNCHANGED <<username, password, channel, endpoint, version_to_force, clock,
                   token, calls, resps, hs, loginResult, exc, dvars, lvars>>

MainStart ==
    /\ pc = "start"
    /\ IF username = "" \/ password = ""
       THEN pc' = "done" /\ mainResult' = "returned"
       ELSE pc' = "connect" /\ UNCHANGED mainResult
    /\ UNCHANGED <<username, password, channel, endpoint, version_to_force, clock,
                   token, calls, resps, hs, loginResult, exc, dvars, lvars>>

\* mutant: a failure of channel.connect is caught and main() goes on to login
Connect_IgnoreConnectFailure ==
    /\ pc = "connect"
    /\ \/ /\ pc' = "done" /\ mainResult' = "raised"
          /\ UNCHANGED <<channel, endpoint, version_to_force>>
       \/ \E version \in Versions, server \in Servers :
            /\ endpoint' = server
            /\ version_to_force' = RemoveW(version)
            /\ channel' \in {"created", "open"}
            /\ pc' = "login" /\ UNCHANGED mainResult
    /\ UNCHANGED <<username, password, clock, token, calls, resps, hs, loginResult,
                   exc, dvars, lvars>>

Connect ==
    /\ pc = "connect"
    /\ \/ \* one of the three HTTP fetches fails
          /\ pc' = "done" /\ mainResult' = "raised"
          /\ UNCHANGED <<channel, endpoint, version_to_force>>
       \/ \E version \in Versions, server \in Servers :
            /\ endpoint' = server
            /\ version_to_force' = RemoveW(version)
            /\ \/ \* channel.connect raises
                  /\ channel' = "created"
                  /\ pc' = "done" /\ mainResult' = "raised"
               \/ /\ channel' = "open"
                  /\ pc' = "login" /\ UNCHANGED mainResult
    /\ UNCHANGED <<username, password, clock, token, calls, resps, hs, loginResult,
                   exc, dvars, lvars>>

(***************************************************************************)
(* login()                                                                 *)
(***************************************************************************)
\* mutant: the check of line 91 is missing, phase 2 runs with whatever came back
LoginPhase1_NoTokenCheck ==
    /\ pc = "login"
    /\ clock' = Uuid1(clock)
    /\ \E res \in ResLogin :
         /\ Issue(ReqLogin(username, password, clock', version_to_force), res)
         /\ IF ~res.ok
            THEN /\ Propagate(res)
                 /\ hs' = "Failed"
                 /\ UNCHANGED token
            ELSE /\ token' = res.access_token
                 /\ hs' = "TokenObtained"
                 /\ pc' = "oauth2"
                 /\ UNCHANGED <<loginResult, exc, mainResult>>
    /\ UNCHANGED <<username, password, channel, endpoint, version_to_force, dvars, lvars>>

\* mutant: an empty token makes login() send the login request again
LoginPhase1_RetryOnEmpty ==
    /\ pc = "login"
    /\ clock' = Uuid1(clock)
    /\ \E res \in ResLogin :
         /\ Issue(ReqLogin(username, password, clock', version_to_force), res)
         /\ IF ~res.ok
            THEN /\ Propagate(res)
                 /\ hs' = "Failed"
                 /\ UNCHANGED token
            ELSE /\ token' = res.access_token
                 /\ IF res.access_token = ""
                    THEN UNCHANGED <<hs, pc>>
                    ELSE /\ hs' = "TokenObtained"
                         /\ pc' = "oauth2"
                 /\ UNCHANGED <<loginResult, exc, mainResult>>
    /\ UNCHANGED <<username, password, channel, endpoint, version_to_force, dvars, lvars>>

LoginPhase1 ==
    /\ pc = "login"
    /\ clock' = Uuid1(clock)
    /\ \E res \in ResLogin :
         /\ Issue(ReqLogin(username, password, clock', version_to_force), res)
         /\ IF ~res.ok
            THEN /\ Propagate(res)
                 /\ hs' = "Failed"
                 /\ UNCHANGED token
            ELSE /\ token' = res.access_token
                 /\ IF res.access_token = ""
                    THEN /\ loginResult' = "false"
                         /\ hs' = "Failed"
                         /\ pc' = "close"
                    ELSE /\ hs' = "TokenObtained"
                         /\ pc' = "oauth2"
                         /\ UNCHANGED loginResult
                 /\ UNCHANGED <<exc, mainResult>>
    /\ UNCHANGED <<username, password, channel, endpoint, version_to_force, dvars, lvars>>

\* mutant: a failure of oauth2_login is caught and login() carries on
LoginPhase2_Swallow ==
    /\ pc = "oauth2"
    /\ clock' = Uuid1(clock)
    /\ \E res \in ResCommon :
         /\ Issue(ReqOauth2Login(token, clock', version_to_force), res)
         /\ hs' = IF res.ok THEN "SessionEstablished" ELSE "Failed"
         /\ pc' = "pay"
         /\ UNCHANGED <<loginResult, exc, mainResult>>
    /\ UNCHANGED <<username, password, channel, endpoint, version_to_force, token,
                   dvars, lvars>>

\* mutant: line 102 is missing, the uuid_key of line 78 is sent again
LoginPhase2_ReuseKey ==
    /\ pc = "oauth2"
    /\ clock' = clock
    /\ \E res \in ResCommon :
         /\ Issue(ReqOauth2Login(token, clock, version_to_force), res)
         /\ IF ~res.ok
            THEN /\ Propagate(res)
                 /\ hs' = "Failed"
            ELSE /\ hs' = "SessionEstablished"
                 /\ pc' = "pay"
                 /\ UNCHANGED <<loginResult, exc, mainResult>>
    /\ UNCHANGED <<username, password, channel, endpoint, version_to_force, token,
                   dvars, lvars>>

LoginPhase2 ==
    /\ pc = "oauth2"
    /\ clock' = Uuid1(clock)
    /\ \E res \in ResCommon :
         /\ Issue(ReqOauth2Login(token, clock', version_to_force), res)
         /\ IF ~res.ok
            THEN /\ Propagate(res)
                 /\ hs' = "Failed"
            ELSE /\ hs' = "SessionEstablished"
                 /\ pc' = "pay"
                 /\ UNCHANGED <<loginResult, exc, mainResult>>
    /\ UNCHANGED <<username, password, channel, endpoint, version_to_force, token,
                   dvars, lvars>>

\* mutant: a failed pay_month_ticket is sent again
PayMonthTicket_Retry ==
    /\ pc = "pay"
    /\ \E res \in ResCommon :
         /\ Issue(ReqCommon("pay_month_ticket"), res)
         /\ pc' = IF res.ok THEN "fetch" ELSE "pay"
         /\ UNCHANGED <<loginResult, exc, mainResult>>
    /\ UNCHANGED <<username, password, channel, endpoint, version_to_force, clock,
                   token, hs, dvars, lvars>>

PayMonthTicket ==
    /\ pc = "pay"
    /\ \E res \in ResCommon :
         /\ Issue(ReqCommon("pay_month_ticket"), res)
         /\ IF ~res.ok
            THEN Propagate(res)
            ELSE /\ pc' = "fetch"
                 /\ UNCHANGED <<loginResult, exc, mainResult>>
    /\ UNCHANGED <<username, password, channel, endpoint, version_to_force, clock,
                   token, hs, dvars, lvars>>

FetchMonthTicketInfo ==
    /\ pc = "fetch"
    /\ \E res \in ResCommon :
         /\ Issue(ReqCommon("fetch_month_ticket_info"), res)
         /\ IF ~res.ok
            THEN Propagate(res)
            ELSE /\ loginResult' = "true"
                 /\ pc' = "close"
                 /\ UNCHANGED <<exc, mainResult>>
    /\ UNCHANGED <<username, password, channel, endpoint, version_to_force, clock,
                   token, hs, dvars, lvars>>

ChannelClose ==
    /\ pc = "close"
    /\ channel' = "closed"
    /\ pc' = "done"
    /\ mainResult' = "returned"
    /\ UNCHANGED <<username, password, endpoint, version_to_force, clock, token,
                   calls, resps, hs, loginResult, exc, dvars, lvars>>

(***************************************************************************)
(* load_and_process_game_log()                                             *)
(***************************************************************************)
MaxChildren == 5

NewRound == ".lq.RecordNewRound"
DiscardTile == ".lq.RecordDiscardTile"
DealTile == ".lq.RecordDealTile"
\* the type names lines 161, 168 and 175 compare with
Registered == {NewRound, DiscardTile, DealTile}
\* a record type the loop has no branch for
OtherName == ".lq.RecordChiPengGang"

\* A child of the container. wrapper: its bytes parse as a Wrapper (line 159);
\* name: the Wrapper's name; data: its payload parses as the message its name
\* declares (lines 164, 171, 178). The payload of an unregistered type is
\* never parsed.
Children ==
    {[wrapper |-> TRUE, name |-> n, data |-> d] : n \in Registered, d \in BOOLEAN}
    \cup {[wrapper |-> TRUE, name |-> OtherName, data |-> TRUE]}
    \cup {[wrapper |-> FALSE, name |-> "", data |-> FALSE]}

Containers == UNION {[1..n -> Children] : n \in 0..MaxChildren}

\* res.data of fetch_game_record: ok when both outer parses (lines 145, 148) succeed
Blobs == {[ok |-> FALSE, records |-> <<>>]} \cup {[ok |-> TRUE, records |-> c] : c \in Containers}

\* the blobs tried when the function is called more than once
MaxChildrenAgain == 3
MaxDecodeCalls == 2
BlobsAgain ==
    {[ok |-> FALSE, records |-> <<>>]}
    \cup {[ok |-> TRUE, records |-> c] :
            c \in UNION {[1..n -> Children] : n \in 0..MaxChildrenAgain}}

\* mutant: range(0, game_records_count) is left as soon as the three types were shown
LoopDone_EarlyExit ==
    \/ i = Len(records)
    \/ is_show_new_round_record /\ is_show_discard_tile /\ is_show_deal_tile

\* range(0, game_records_count) is exhausted
LoopDone == i = Len(records)

\* mutant: the comparison of the name is missing from the condition
Branch_NoNameCheck(child, typeName, shown) ==
    IF ~shown
    THEN (IF child.data THEN "visit" ELSE "raise")
    ELSE "skip"

\* mutant: the "and not is_show_..." half of the condition is missing
Branch_AllOccurrences(child, typeName, shown) ==
    IF child.name = typeName
    THEN (IF child.data THEN "visit" ELSE "raise")
    ELSE "skip"

\* one of the three if statements of the loop body: what it does with the child
Branch(child, typeName, shown) ==
    IF child.name = typeName /\ ~shown
    THEN (IF child.data THEN "visit" ELSE "raise")
    ELSE "skip"

\* print_data_as_json(data, type), as seen from outside
Visit(b, idx, type) == IF b = "visit" THEN <<[index |-> idx, type |-> type]>> ELSE <<>>

\* mutant: a container without records is treated as a blob that does not parse
DecodeStart_EmptyIsError ==
    /\ dpc = "fetch"
    /\ \/ \E e \in Errors :
            /\ dpc' = "raised"
            /\ derr' = <<[kind |-> e, index |-> -1, name |-> ""]>>
            /\ UNCHANGED records
       \/ /\ ~blob.ok \/ blob.records = <<>>
          /\ dpc' = "raised"
          /\ derr' = <<[kind |-> "DecodeError", index |-> -1, name |-> ""]>>
          /\ UNCHANGED records
       \/ /\ blob.ok /\ blob.records # <<>>
          /\ records' = blob.records
          /\ dpc' = "loop"
          /\ UNCHANGED derr
    /\ i' = 0
    /\ is_show_new_round_record' = FALSE
    /\ is_show_discard_tile' = FALSE
    /\ is_show_deal_tile' = FALSE
    /\ UNCHANGED <<blob, visits, processed, prev, hvars, lvars>>

\* mutant: the three flags live outside the function and lines 154 to 156 are missing
DecodeStart_KeepFlags ==
    /\ dpc = "fetch"
    /\ \/ \E e \in Errors :
            /\ dpc' = "raised"
            /\ derr' = <<[kind |-> e, index |-> -1, name |-> ""]>>
            /\ UNCHANGED records
       \/ /\ ~blob.ok
          /\ dpc' = "raised"
          /\ derr' = <<[kind |-> "DecodeError", index |-> -1, name |-> ""]>>
          /\ UNCHANGED records
       \/ /\ blob.ok
          /\ records' = blob.records
          /\ dpc' = "loop"
          /\ UNCHANGED derr
    /\ i' = 0
    /\ UNCHANGED <<is_show_new_round_record, is_show_discard_tile, is_show_deal_tile>>
    /\ UNCHANGED <<blob, visits, processed, prev, hvars, lvars>>

DecodeStart ==
    /\ dpc = "fetch"
    /\ \/ \E e \in Errors :
            \* lobby.fetch_game_record raises
            /\ dpc' = "raised"
            /\ derr' = <<[kind |-> e, index |-> -1, name |-> ""]>>
            /\ UNCHANGED records
       \/ /\ ~blob.ok
          /\ dpc' = "raised"
          /\ derr' = <<[kind |-> "DecodeError", index |-> -1, name |-> ""]>>
          /\ UNCHANGED records
       \/ /\ blob.ok
          /\ records' = blob.records
          /\ dpc' = "loop"
          /\ UNCHANGED derr
    /\ i' = 0
    /\ is_show_new_round_record' = FALSE
    /\ is_show_discard_tile' = FALSE
    /\ is_show_deal_tile' = FALSE
    /\ UNCHANGED <<blob, visits, processed, prev, hvars, lvars>>

\* one pass of the loop body, lines 159 to 180
DecodeStep ==
    /\ dpc = "loop"
    /\ ~LoopDone
    /\ LET child == records[i + 1]
           b1 == IF child.wrapper
                 THEN Branch(child, NewRound, is_show_new_round_record) ELSE "raise"
           b2 == IF b1 = "raise"
                 THEN "skip" ELSE Branch(child, DiscardTile, is_show_discard_tile)
           b3 == IF b1 = "raise" \/ b2 = "raise"
                 THEN "skip" ELSE Branch(child, DealTile, is_show_deal_tile)
       IN  /\ is_show_new_round_record' = (is_show_new_round_record \/ b1 = "visit")
           /\ is_show_discard_tile' = (is_show_discard_tile \/ b2 = "visit")
           /\ is_show_deal_tile' = (is_show_deal_tile \/ b3 = "visit")
           /\ visits' = visits \o Visit(b1, i, "RecordNewRound")
                               \o Visit(b2, i, "RecordDiscardTile")
                               \o Visit(b3, i, "RecordDealTile")
           /\ IF "raise" \in {b1, b2, b3}
              THEN /\ dpc' = "raised"
                   /\ derr' = <<[kind |-> "DecodeError", index |-> i, name |-> child.name]>>
                   /\ UNCHANGED <<i, processed>>
              ELSE /\ i' = i + 1
                   /\ processed' = Append(processed, i)
                   /\ UNCHANGED <<dpc, derr>>
    /\ UNCHANGED <<blob, records, prev, hvars, lvars>>

\* line 182
DecodeReturn ==
    /\ dpc = "loop"
    /\ LoopDone
    /\ dpc' = "returned"
    /\ UNCHANGED <<blob, records, i, is_show_new_round_record, is_show_discard_tile,
                   is_show_deal_tile, visits, processed, derr, prev, hvars, lvars>>

DecodeIdle ==
    /\ dpc = "idle"
    /\ blob = [ok |-> FALSE, records |-> <<>>]
    /\ records = <<>>
    /\ i = 0
    /\ is_show_new_round_record = FALSE
    /\ is_show_discard_tile = FALSE
    /\ is_show_deal_tile = FALSE
    /\ visits = <<>>
    /\ processed = <<>>
    /\ derr = <<>>
    /\ prev = <<>>

\* a second call of load_and_process_game_log with the same uuid, after the
\* first was left: the server still holds the same blob; the locals of the new
\* call hold nothing until lines 150 to 156 assign them
DecodeAgain ==
    /\ dpc \in {"returned", "raised"}
    /\ Len(prev) + 1 < MaxDecodeCalls
    /\ prev' = Append(prev, [dpc |-> dpc, visits |-> visits, derr |-> derr])
    /\ dpc' = "fetch"
    /\ visits' = <<>>
    /\ processed' = <<>>
    /\ derr' = <<>>
    /\ UNCHANGED <<blob, records, i, is_show_new_round_record, is_show_discard_tile,
                   is_show_deal_tile, hvars, lvars>>

(***************************************************************************)
(* load_game_logs()                                                        *)
(***************************************************************************)
MaxRecords == 10
\* line 125
current == 1
\* line 126
step == 30

\* game uuids the server may list; the same one may come twice
GameUuids == {"g1", "g2"}
RecordLists == UNION {[1..n -> [uuid : GameUuids]] : n \in 0..MaxRecords}

ReqGameRecordList(start, count) ==
    [method |-> "fetch_game_record_list", start |-> start, count |-> count]

\* [r.uuid for r in res.record_list]
RecordUuids(list) == [k \in DOMAIN list |-> list[k].uuid]

\* mutant: the function goes on asking while the answer is not empty
LoadGameLogs_Paginate ==
    /\ lpc = "call"
    /\ \/ \E e \in Errors :
            /\ listCalls' = Append(listCalls, [req |-> ReqGameRecordList(current, step),
                                               res |-> e])
            /\ lpc' = "raised"
            /\ UNCHANGED listed
       \/ /\ listCalls' = Append(listCalls, [req |-> ReqGameRecordList(current, step),
                                             res |-> "response"])
          /\ listed' = listed \o RecordUuids(record_list)
          /\ lpc' = IF record_list = <<>> THEN "returned" ELSE "call"
    /\ UNCHANGED <<record_list, hvars, dvars>>

\* lines 124 to 133
LoadGameLogs ==
    /\ lpc = "call"
    /\ \/ \E e \in Errors :
            \* lobby.fetch_game_record_list raises
            /\ listCalls' = Append(listCalls, [req |-> ReqGameRecordList(current, step),
                                               res |-> e])
            /\ lpc' = "raised"
            /\ UNCHANGED listed
       \/ /\ listCalls' = Append(listCalls, [req |-> ReqGameRecordList(current, step),
                                             res |-> "response"])
          /\ listed' = listed \o RecordUuids(record_list)
          /\ lpc' = "returned"
    /\ UNCHANGED <<record_list, hvars, dvars>>

ListIdle ==
    /\ lpc = "idle"
    /\ record_list = <<>>
    /\ listCalls = <<>>
    /\ listed = <<>>

HandshakeIdle ==
    /\ pc = "idle"
    /\ username = ""
    /\ password = ""
    /\ channel = "none"
    /\ endpoint = "none"
    /\ version_to_force = <<>>
    /\ clock = 0
    /\ token = ""
    /\ calls = <<>>
    /\ resps = <<>>
    /\ hs = "Unauthenticated"
    /\ loginResult = "none"
    /\ exc = "none"
    /\ mainResult = "running"

Init ==
    /\ pc = "start"
    /\ username \in Usernames
    /\ password \in Passwords
    /\ channel = "none"
    /\ endpoint = "none"
    /\ version_to_force = <<>>
    /\ clock \in 0..1
    /\ token = ""
    /\ calls = <<>>
    /\ resps = <<>>
    /\ hs = "Unauthenticated"
    /\ loginResult = "none"
    /\ exc = "none"
    /\ mainResult = "running"
    /\ DecodeIdle
    /\ ListIdle

Next ==
    \/ MainStart
    \/ Connect
    \/ LoginPhase1
    \/ LoginPhase2
    \/ PayMonthTicket
    \/ FetchMonthTicketInfo
    \/ ChannelClose

Spec == Init /\ [][Next]_vars

DecodeInit ==
    /\ HandshakeIdle
    /\ dpc = "fetch"
    /\ blob \in Blobs
    /\ records = <<>>
    /\ i = 0
    /\ is_show_new_round_record = FALSE
    /\ is_show_discard_tile = FALSE
    /\ is_show_deal_tile = FALSE
    /\ visits = <<>>
    /\ processed = <<>>
    /\ derr = <<>>
    /\ prev = <<>>
    /\ ListIdle

DecodeNext ==
    \/ DecodeStart
    \/ DecodeStep
    \/ DecodeReturn

DecodeSpec == DecodeInit /\ [][DecodeNext]_vars

\* two calls of load_and_process_game_log, one after the other, on one blob
DecodeAgainInit ==
    /\ HandshakeIdle
    /\ ListIdle
    /\ dpc = "fetch"
    /\ blob \in BlobsAgain
    /\ records = <<>>
    /\ i = 0
    /\ is_show_new_round_record = FALSE
    /\ is_show_discard_tile = FALSE
    /\ is_show_deal_tile = FALSE
    /\ visits = <<>>
    /\ processed = <<>>
    /\ derr = <<>>
    /\ prev = <<>>

DecodeAgainNext ==
    \/ DecodeStart
    \/ DecodeStep
    \/ DecodeReturn
    \/ DecodeAgain

DecodeAgainSpec == DecodeAgainInit /\ [][DecodeAgainNext]_vars

ListInit ==
    /\ HandshakeIdle
    /\ DecodeIdle
    /\ lpc = "call"
    /\ record_list \in RecordLists
    /\ listCalls = <<>>
    /\ listed = <<>>

ListNext == LoadGameLogs

ListSpec == ListInit /\ [][ListNext]_vars

(***************************************************************************)
(* Properties of the handshake.                                            *)
(***************************************************************************)
Method(k) == calls[k].req.method
CallsOf(m) == {k \in DOMAIN calls : Method(k) = m}
Housekeeping == {"pay_month_ticket", "fetch_month_ticket_info"}
\* lobby.login came back with a non-empty access_token
GotToken(k) == Method(k) = "login" /\ resps[k].ok /\ resps[k].access_token # ""
\* lobby.login came back with an empty access_token
GotNoToken(k) == Method(k) = "login" /\ resps[k].ok /\ resps[k].access_token = ""
LoginFinished == loginResult # "none"
\* the moves of the handshake state machine
HsForward ==
    {<<"Unauthenticated", "TokenObtained">>, <<"TokenObtained", "SessionEstablished">>,
     <<"Unauthenticated", "Failed">>, <<"TokenObtained", "Failed">>}

\* C1: SessionEstablished is reached only through Unauthenticated ->
\* TokenObtained -> SessionEstablished: oauth2_login is never called unless
\* lobby.login has returned a non-empty access_token before it, the session is
\* established only once oauth2_login has returned, and the handshake state
\* never moves back.
C1_OrderedHandshake ==
    /\ [](\A k \in DOMAIN calls :
            Method(k) = "oauth2_login" => \E j \in 1..(k - 1) : GotToken(j))
    /\ [](hs = "SessionEstablished" =>
            \E k \in DOMAIN calls : Method(k) = "oauth2_login" /\ resps[k].ok)
    /\ [][hs' # hs => <<hs, hs'>> \in HsForward]_vars

C1_Witness ==
    /\ hs = "SessionEstablished"
    /\ \E k \in DOMAIN calls : Method(k) = "oauth2_login" /\ resps[k].ok

\* C2: when lobby.login answers with an empty access_token, login() issues no
\* other call (no oauth2_login, no housekeeping call, no second login) and
\* returns False.
C2_EmptyTokenStops ==
    \A k \in DOMAIN calls :
        GotNoToken(k) => /\ Len(calls) = 1
                         /\ loginResult = "false"
                         /\ hs = "Failed"

C2_Witness ==
    /\ \E k \in DOMAIN calls : GotNoToken(k)
    /\ loginResult = "false"
    /\ pc = "done"

\* C3 (as claimed): once phase 1 and phase 2 have succeeded, login() returns
\* True even when a housekeeping call raises, and a failure of
\* pay_month_ticket does not keep fetch_month_ticket_info from being issued.
C3_HousekeepingNonFatal ==
    (LoginFinished /\ hs = "SessionEstablished") =>
        /\ loginResult = "true"
        /\ CallsOf("fetch_month_ticket_info") # {}

\* C4: each of the four methods is called at most once; a handshake that
\* returns True has issued exactly login, oauth2_login, pay_month_ticket,
\* fetch_month_ticket_info in this order; a housekeeping call is issued only
\* after oauth2_login has returned.
C4_FourCallsOnceInOrder ==
    /\ \A k \in DOMAIN calls : Cardinality(CallsOf(Method(k))) = 1
    /\ loginResult = "true" =>
         [k \in DOMAIN calls |-> Method(k)] =
            <<"login", "oauth2_login", "pay_month_ticket", "fetch_month_ticket_info">>
    /\ \A k \in DOMAIN calls :
         Method(k) \in Housekeeping =>
            \E j \in 1..(k - 1) : Method(j) = "oauth2_login" /\ resps[j].ok

C4_Witness ==
    /\ loginResult = "true"
    /\ Len(calls) = 4

\* C5: a failure of the channel in lobby.login or lobby.oauth2_login leaves
\* login() as that same exception: login() does not return, the failed call is
\* the last one issued and it was issued once.
C5_ChannelErrorPropagates ==
    \A k \in DOMAIN calls :
        (Method(k) \in {"login", "oauth2_login"} /\ ~resps[k].ok) =>
            /\ loginResult = "raised"
            /\ exc = resps[k].error
            /\ mainResult = "raised"
            /\ Len(calls) = k
            /\ Cardinality(CallsOf(Method(k))) = 1

C5_Witness ==
    \E k \in DOMAIN calls :
        /\ Method(k) = "oauth2_login"
        /\ ~resps[k].ok
        /\ exc = "ServerError"

\* the string fields of a request that could hold a token
Carries(req, t) ==
    \E f \in DOMAIN req \cap {"account", "access_token"} : req[f] = t

\* C6: the oauth2_login request is the only request carrying the access token
\* of the phase-1 response: there is one such request, its access_token is
\* that token, its gen_access_token is false, and no other request carries it.
C6_TokenConsumedOnce ==
    \A j \in DOMAIN calls :
        GotToken(j) =>
            /\ Cardinality(CallsOf("oauth2_login")) <= 1
            /\ \A k \in DOMAIN calls :
                 IF Method(k) = "oauth2_login"
                 THEN /\ calls[k].req.access_token = resps[j].access_token
                      /\ calls[k].req.gen_access_token = FALSE
                 ELSE ~Carries(calls[k].req, resps[j].access_token)

C6_Witness ==
    /\ \E j \in DOMAIN calls : GotToken(j) /\ resps[j].access_token = "t2"
    /\ \E k \in DOMAIN calls : Method(k) = "oauth2_login"
    /\ Len(calls) = 4

(***************************************************************************)
(* Properties of the decode loop.                                          *)
(***************************************************************************)
\* the second argument print_data_as_json gets for a registered name
Label(n) ==
    CASE n = NewRound -> "RecordNewRound"
      [] n = DiscardTile -> "RecordDiscardTile"
      [] n = DealTile -> "RecordDealTile"
\* the loop was entered: both outer parses succeeded
LoopEntered == dpc \in {"loop", "returned"} \/ (dpc = "raised" /\ derr[1].index >= 0)
\* the function was left after the loop was entered
LoopLeft == LoopEntered /\ dpc \in {"returned", "raised"}
\* positions (1-based) of the children that carry the name n
Occurrences(n) == {k \in DOMAIN records : records[k].wrapper /\ records[k].name = n}
WellFormed(k) == records[k].wrapper /\ records[k].data
AllWellFormed == \A k \in DOMAIN records : WellFormed(k)
\* every child is an envelope: its bytes parse as a Wrapper
AllEnvelopes == \A k \in DOMAIN records : records[k].wrapper
VisitsOf(n) == {v \in DOMAIN visits : visits[v].type = Label(n)}
\* a registered name whose payload does not parse
MalformedRegistered(k) ==
    records[k].wrapper /\ records[k].name \in Registered /\ ~records[k].data

\* the earliest child carrying the name n exists and is well-formed
EarliestWellFormed(n) ==
    /\ Occurrences(n) # {}
    /\ \A k \in Occurrences(n) : (\A j \in Occurrences(n) : k <= j) => WellFormed(k)

\* Holds of the loop for every container: a registered name reaches the
\* visitor at most once, and then for the earliest child carrying it.
FirstOccurrenceSafety ==
    \A n \in Registered :
        /\ Cardinality(VisitsOf(n)) <= 1
        /\ \A v \in VisitsOf(n) :
             /\ visits[v].index + 1 \in Occurrences(n)
             /\ \A k \in Occurrences(n) : visits[v].index + 1 <= k

\* C7 (as claimed): for any sequence of child envelopes, each registered name
\* triggers the visitor at most once, the invocation is for the earliest child
\* carrying that name, and a name that occurs among the well-formed children
\* has triggered it exactly once when the function is left. The last part is
\* stated for the names whose earliest child is well-formed, the case in which
\* it agrees with the part before it.
C7_FirstOccurrenceOnce ==
    AllEnvelopes =>
        /\ FirstOccurrenceSafety
        /\ \A n \in Registered :
             (LoopLeft /\ EarliestWellFormed(n)) => Cardinality(VisitsOf(n)) = 1

\* C8 (as claimed): in a container of envelopes, a child with a registered
\* name and a malformed payload
\* yields exactly one DecodeError for that child and the loop goes on: every
\* later child is processed and the first occurrences of the other registered
\* names after it still reach the visitor.
C8_MalformedChildContained ==
    (LoopLeft /\ AllEnvelopes) =>
        \A k \in DOMAIN records :
            MalformedRegistered(k) =>
                /\ Cardinality({e \in DOMAIN derr : derr[e].index = k - 1}) = 1
                /\ \A j \in (k + 1)..Len(records) :
                     \E q \in DOMAIN processed : processed[q] = j - 1
                /\ \A n \in Registered \ {records[k].name} :
                     (\E j \in Occurrences(n) : j > k /\ WellFormed(j)) =>
                        VisitsOf(n) # {}

\* C9: a child whose name is not registered is skipped without error: its
\* pass of the loop body invokes no visitor, changes none of the three flags,
\* raises nothing and moves on to the next child.
C9_UnknownSkipped ==
    [][(/\ dpc = "loop"
        /\ i < Len(records)
        /\ records[i + 1].wrapper
        /\ records[i + 1].name \notin Registered)
       => /\ visits' = visits
          /\ is_show_new_round_record' = is_show_new_round_record
          /\ is_show_discard_tile' = is_show_discard_tile
          /\ is_show_deal_tile' = is_show_deal_tile
          /\ derr' = derr
          /\ dpc' = "loop"
          /\ i' = i + 1
          /\ processed' = Append(processed, i)]_vars

\* an unregistered child was passed and a later child reached the visitor
C9_Witness ==
    \E q \in DOMAIN processed :
        /\ records[processed[q] + 1].name = OtherName
        /\ \E v \in DOMAIN visits : visits[v].index > processed[q]

\* C10: for a container of N well-formed children the loop examines the
\* children 0..N-1 once each in ascending order, raises nothing, can always
\* take its next pass, and returns only after all N were examined, also when
\* the three types were all shown before the last child.
C10_AllChildrenOnce ==
    (LoopEntered /\ AllWellFormed) =>
        /\ processed = [k \in 1..i |-> k - 1]
        /\ i <= Len(records)
        /\ dpc # "raised"
        /\ dpc = "returned" => Len(processed) = Len(records)
        /\ dpc = "loop" => ENABLED (DecodeStep \/ DecodeReturn)

\* all three types were shown two children before the end, and the loop went on
C10_Witness ==
    /\ dpc = "returned"
    /\ AllWellFormed
    /\ Len(processed) = Len(records)
    /\ Len(visits) = 3
    /\ \A v \in DOMAIN visits : visits[v].index + 2 < Len(records)

\* the function was left by a DecodeError
DecodeFailed == dpc = "raised" /\ derr[1].kind = "DecodeError"

\* C11: a container that parses and holds zero children gives no visitor
\* invocation and no decode error; the loop body never runs and the function
\* returns (line 182) unless the fetch itself raised.
C11_EmptyContainer ==
    (blob.ok /\ blob.records = <<>>) =>
        /\ visits = <<>>
        /\ processed = <<>>
        /\ ~DecodeFailed
        /\ dpc = "loop" => (ENABLED DecodeReturn /\ ~ENABLED DecodeStep)

C11_Witness ==
    /\ blob.ok
    /\ blob.records = <<>>
    /\ dpc = "returned"
    /\ derr = <<>>

\* the blob holds five envelopes named A, B, A, U, A, with A and B registered
\* and distinct, U unregistered, and the first A and the B well-formed
ScenarioABAUA(A, B) ==
    /\ blob.ok
    /\ Len(blob.records) = 5
    /\ \A k \in 1..5 : blob.records[k].wrapper
    /\ [k \in 1..5 |-> blob.records[k].name] = <<A, B, A, OtherName, A>>
    /\ blob.records[1].data
    /\ blob.records[2].data

\* C12: on a blob whose five children are named A, B, A, U, A the visitor
\* fires exactly twice, for child 0 (A) and for child 1 (B); children 2, 3 and
\* 4 give no visitor call and no error, and the function returns.
C12_ScenarioTwoVisits ==
    \A A \in Registered : \A B \in Registered \ {A} :
        ScenarioABAUA(A, B) =>
            /\ dpc # "fetch" => ~DecodeFailed
            /\ \A v \in DOMAIN visits : visits[v].index < 2
            /\ i >= 2 => visits = <<[index |-> 0, type |-> Label(A)],
                                    [index |-> 1, type |-> Label(B)]>>
            /\ dpc = "returned" => processed = <<0, 1, 2, 3, 4>>
            /\ dpc = "loop" => ENABLED (DecodeStep \/ DecodeReturn)

C12_Witness ==
    /\ ScenarioABAUA(DiscardTile, NewRound)
    /\ dpc = "returned"
    /\ Len(visits) = 2

Shown(n) ==
    CASE n = NewRound -> is_show_new_round_record
      [] n = DiscardTile -> is_show_discard_tile
      [] n = DealTile -> is_show_deal_tile

\* C19: after the passes for children 0..i-1 each flag is true exactly when
\* one of these children carries its type name; within a call a flag that is
\* true stays true; a child causes at most one visitor invocation, so there
\* are at most three, in strictly increasing child index.
C19_LoopInvariant ==
    /\ [](LoopEntered =>
            /\ \A n \in Registered :
                 Shown(n) <=> \E k \in 1..Len(processed) : records[k].name = n
            /\ Len(visits) <= 3
            /\ \A v, w \in DOMAIN visits : v < w => visits[v].index < visits[w].index)
    /\ [][\A n \in Registered : Shown(n) => Shown(n)']_vars

\* all three flags are set, the last one by a child that follows repeats
C19_Witness ==
    /\ dpc = "returned"
    /\ \A n \in Registered : Shown(n)
    /\ Len(visits) = 3
    /\ visits[3].index = 4

\* an earlier call got into the loop and was left
EarlierLoopLeft(c) ==
    \/ prev[c].dpc = "returned"
    \/ prev[c].dpc = "raised" /\ prev[c].derr[1].index >= 0

\* C13: a later call of load_and_process_game_log on the same blob makes the
\* same sequence of visitor invocations (child indices and types) and ends the
\* same way as an earlier one: the flags of one call do not reach the next.
C13_RestartablePerCall ==
    \A c \in DOMAIN prev :
        (LoopLeft /\ EarlierLoopLeft(c)) =>
            /\ visits = prev[c].visits
            /\ dpc = prev[c].dpc
            /\ derr = prev[c].derr

C13_Witness ==
    /\ Len(prev) = 1
    /\ EarlierLoopLeft(1)
    /\ LoopLeft
    /\ Len(visits) = 2
    /\ visits = prev[1].visits

(***************************************************************************)
(* Properties of load_game_logs.                                           *)
(***************************************************************************)
\* C14: load_game_logs issues one fetch_game_record_list request, with
\* start = 1 and count = 30, and never a second one; when the server answers
\* with M records it returns their M uuids in the order of the answer, and an
\* empty answer gives an empty list, not an error.
C14_OneCallAllIdentifiers ==
    /\ Len(listCalls) <= 1
    /\ \A k \in DOMAIN listCalls :
         /\ listCalls[k].req =
              [method |-> "fetch_game_record_list", start |-> 1, count |-> 30]
         /\ listCalls[k].res = "response" =>
              /\ lpc = "returned"
              /\ Len(listed) = Len(record_list)
              /\ \A j \in DOMAIN record_list : listed[j] = record_list[j].uuid
    /\ lpc = "returned" => Len(listCalls) = 1

\* the server answered with ten records, not all the same
C14_Witness ==
    /\ lpc = "returned"
    /\ Len(record_list) = 10
    /\ Len(listed) = 10
    /\ listed[1] # listed[2]

(***************************************************************************)
(* Properties of main() and of the requests of the handshake.              *)
(***************************************************************************)
\* the calls whose request has a random_key
Keyed == {k \in DOMAIN calls : "random_key" \in DOMAIN calls[k].req}

\* C15: the random_key of the oauth2_login request is generated anew and
\* differs from the random_key of the login request; no key value is sent in
\* two requests.
C15_FreshCorrelationKeys ==
    /\ \A j, k \in Keyed : j # k => calls[j].req.random_key # calls[k].req.random_key
    /\ \A k \in DOMAIN calls : Method(k) \in {"login", "oauth2_login"} => k \in Keyed

C15_Witness ==
    /\ Len(calls) >= 2
    /\ Method(1) = "login"
    /\ Method(2) = "oauth2_login"
    /\ calls[1].req.random_key # calls[2].req.random_key

\* C16: with an empty username or password main() returns without endpoint
\* discovery, without creating or opening the channel and without any RPC
\* call; no login request carries the hash of an empty password.
C16_EmptyCredentialsStop ==
    /\ (username = "" \/ password = "") =>
         /\ pc \in {"start", "done"}
         /\ pc = "done" => mainResult = "returned"
         /\ channel = "none"
         /\ endpoint = "none"
         /\ version_to_force = <<>>
         /\ calls = <<>>
    /\ \A k \in DOMAIN calls :
         Method(k) = "login" => calls[k].req.password # Hmac("")

C16_Witness ==
    /\ username # ""
    /\ password = ""
    /\ pc = "done"
    /\ mainResult = "returned"

\* C17 (as claimed): whenever connect() has succeeded, main() does not finish
\* without having closed the channel, whether login returned True, returned
\* False or an RPC call inside it raised.
C17_ChannelClosedOnEveryOutcome ==
    (pc = "done" /\ channel \in {"open", "closed"}) => channel = "closed"

\* C18: every RPC call of the handshake is issued on the open channel, after
\* channel.connect has completed and before channel.close; once the channel is
\* closed nothing more is called on it.
C18_CallsOnOpenChannel ==
    /\ [](\A k \in DOMAIN calls : calls[k].chan = "open")
    /\ [](channel \in {"none", "created"} => calls = <<>>)
    /\ [][channel = "closed" => (calls' = calls /\ channel' = "closed")]_vars

C18_Witness ==
    /\ channel = "closed"
    /\ Len(calls) = 4
    /\ pc = "done"

====
